---- MODULE Spec2Model ----
(***************************************************************************)
(* Model of src/app/index.tsx (Maps_UTM_ED50).                             *)
(*                                                                         *)
(* The file holds two versions of the App component:                       *)
(*   lines 24-183   the version that draws the direction cone              *)
(*                  (generateConeCoordinates);                             *)
(*   lines 236-481  the version with real-time tracking and the UTM ED50   *)
(*                  conversion of a tapped point (handleMapPress,          *)
(*                  startTracking, the effect cleanup, the two screens).   *)
(*                                                                         *)
(* Four specifications:                                                    *)
(*   Spec      the tracking component: startTracking's awaits, the         *)
(*             platform callbacks, taps, buttons and the unmount, in every *)
(*             interleaving;                                               *)
(*   SpecTap   handleMapPress alone, on the map screen, over the whole     *)
(*             longitude range;                                            *)
(*   SpecCone  generateConeCoordinates in fixed-point degrees;             *)
(*   SpecPole  generateConeCoordinates with radius 0 next to a pole, in    *)
(*             the arithmetic of IEEE doubles just below 1.                *)
(***************************************************************************)
EXTENDS Integers, Sequences, FiniteSets

VARIABLES
  \* ---- React state of App (lines 240-248) ----
  location,              \* LocationData | null
  locLoader,             \* boolean
  error,                 \* string | null
  heading,               \* number
  clickedPoint,          \* ClickedPoint | null
  mapType,               \* string
  \* ---- the effect's closure (lines 316-317) and startTracking's position ----
  locationSubscription,  \* "null" or "sub"
  headingSubscription,   \* "null" or "sub"
  pc,                    \* where startTracking stands
  mounted,               \* FALSE once the effect cleanup has run
  \* ---- the platform (expo-location, Alert, the map camera) ----
  posWatchActive,        \* a position watch delivers fixes
  headWatchActive,       \* a heading watch delivers readings
  alertShown,            \* Alert.alert("Permesso negato", ...) was raised
  camera,                \* last animateCamera target, or NoCamera
  \* ---- history (what the claims speak about, never read by the actions) ----
  denied,                \* the permission request was answered "not granted"
  lateCallback,          \* a watch callback ran after the cleanup
  lastTap,               \* coordinate of the most recent tap
  tapsSeen,              \* number of taps handled so far, saturating at 2
  proj4Call,             \* the projection definition last handed to proj4
  \* ---- generateConeCoordinates (lines 32-73) ----
  coneIn,                \* [lat, lon, heading, radiusMeters]
  cone,                  \* result for coneIn
  cone360,               \* result for coneIn with heading + 360
  \* ---- generateConeCoordinates with radius 0 next to a pole ----
  poleIn,                \* [sign, colat, lon]
  poleOut                \* result

appVars == <<location, locLoader, error, heading, clickedPoint, mapType,
             locationSubscription, headingSubscription, pc, mounted,
             posWatchActive, headWatchActive, alertShown, camera,
             denied, lateCallback, lastTap, tapsSeen, proj4Call>>
coneVars == <<coneIn, cone, cone360>>
poleVars == <<poleIn, poleOut>>
vars == <<appVars, coneVars, poleVars>>

-----------------------------------------------------------------------------
(* Values *)

\* Coordinates of taps are fixed-point: Scale units per degree.
Scale == 2

NoLocation == [none |-> TRUE]
NoPoint == [none |-> TRUE]
NoError == "<null>"
NoCamera == [none |-> TRUE]
NoTap == [none |-> TRUE]
NoProj == [none |-> TRUE]
NoCone == <<>>

\* Fixes the position watch can deliver (whole degrees).
FixRome ==
  [latitude |-> 41, longitude |-> 12, accuracy |-> 5, timestamp |-> "t1"]
FixSydney ==
  [latitude |-> -33, longitude |-> 151, accuracy |-> 20, timestamp |-> "t2"]
Fixes == {FixRome, FixSydney}

\* trueHeading readings the heading watch can deliver.
Headings == {90, 350}

\* err.message of what requestPermissions / watchPositionAsync /
\* watchHeadingAsync can throw.
PermissionMsg == "permission request failed"
PositionMsg == "location services unavailable"
HeadingMsg == "heading unavailable"

\* Valid tap coordinates (spec section 3: latitude in [-90, 90], longitude in
\* [-180, 180]), in Scale units.
AllLons == (-180 * Scale)..(180 * Scale)
TapLats == {-1, 0, Scale}
\* Taps used where every interleaving of the component is explored.
FewLons == {-180 * Scale, -177 * Scale, 3 * Scale + 1, 180 * Scale}
FewLats == {-1, 0}

-----------------------------------------------------------------------------
(* handleMapPress, lines 253-278 *)

\* line 257: Math.floor((longitude + 180) / 6) + 1
\* Faulty variant: the zone of the first tap is kept.
FusoCached(longitude) ==
  IF clickedPoint # NoPoint THEN clickedPoint.fuso
  ELSE ((longitude + 180 * Scale) \div (6 * Scale)) + 1
\* Faulty variant: Math.ceil for Math.floor.
FusoCeil(longitude) ==
  ((longitude + 180 * Scale + 6 * Scale - 1) \div (6 * Scale)) + 1
Fuso(longitude) == ((longitude + 180 * Scale) \div (6 * Scale)) + 1

\* line 260: latitude < 0
\* Faulty variant: <= for <.
IsSouthLE(latitude) == latitude <= 0
IsSouth(latitude) == latitude < 0

\* line 261: isSouth ? " +south" : ""
StringaEmisfero(isSouth) == IF isSouth THEN <<"+south">> ELSE <<>>

\* line 264: the projection definition; the zone is the number spliced into
\* "+zone=", the rest are the options in the order of the template.
Proj4String(fuso, stringaEmisfero) ==
  [ zone |-> fuso,
    options |-> <<"+proj=utm", "+zone=">> \o stringaEmisfero \o
                <<"+ellps=intl", "+towgs84=-87,-98,-121,0,0,0,0",
                  "+units=m", "+no_defs">> ]

\* line 267: proj4("WGS84", proj4String, [longitude, latitude]) is the proj4
\* library; its two results are kept as the terms x(...) and y(...), and
\* lines 273-274 format them with toFixed(2).
Proj4(def, longitude, latitude) ==
  << [axis |-> "x", def |-> def, lon |-> longitude, lat |-> latitude],
     [axis |-> "y", def |-> def, lon |-> longitude, lat |-> latitude] >>
ToFixed2(v) == [fixed2 |-> v]

\* line 276: isSouth ? "S" : "N"
Emisfero(isSouth) == IF isSouth THEN "S" ELSE "N"

\* lines 371-397 / 400-480: which screen render() returns.
\* Faulty variant: && for || in the gate of line 371.
ScreenAnd == IF ~mounted THEN "none"
             ELSE IF locLoader /\ location = NoLocation THEN "loading"
             ELSE "map"
Screen == IF ~mounted THEN "none"
          ELSE IF locLoader \/ location = NoLocation THEN "loading"
          ELSE "map"

\* lines 383-394: the error text is a child of the loading screen only.
ErrorVisible == Screen = "loading" /\ error # NoError

\* React drops a state update of an unmounted component.
SetState(old, new) == IF mounted THEN new ELSE old

HandleMapPress(latitude, longitude) ==
  /\ Screen = "map"
  /\ LET fuso == Fuso(longitude)
         isSouth == IsSouth(latitude)
         stringaEmisfero == StringaEmisfero(isSouth)
         proj4String == Proj4String(fuso, stringaEmisfero)
         xy == Proj4(proj4String, longitude, latitude)
     IN /\ clickedPoint' = [ lat |-> latitude,
                             lon |-> longitude,
                             est |-> ToFixed2(xy[1]),
                             nord |-> ToFixed2(xy[2]),
                             fuso |-> fuso,
                             emisfero |-> Emisfero(isSouth) ]
        /\ proj4Call' = proj4String
  /\ lastTap' = [lat |-> latitude, lon |-> longitude]
  /\ tapsSeen' = IF tapsSeen < 2 THEN tapsSeen + 1 ELSE tapsSeen
  /\ UNCHANGED <<location, locLoader, error, heading, mapType,
                 locationSubscription, headingSubscription, pc, mounted,
                 posWatchActive, headWatchActive, alertShown, camera,
                 denied, lateCallback>>
  /\ UNCHANGED <<coneVars, poleVars>>

-----------------------------------------------------------------------------
(* Buttons of the map screen, lines 450-478 *)

\* lines 463-465: setMapType("satellite")
PressMapType ==
  /\ Screen = "map"
  /\ mapType' = SetState(mapType, "satellite")
  /\ UNCHANGED <<location, locLoader, error, heading, clickedPoint,
                 locationSubscription, headingSubscription, pc, mounted,
                 posWatchActive, headWatchActive, alertShown, camera,
                 denied, lateCallback, lastTap, tapsSeen, proj4Call>>
  /\ UNCHANGED <<coneVars, poleVars>>

\* lines 299-313: centerOnMe animates the camera to the current location
\* (mapRef.current is set whenever the map screen is rendered).
CenterOnMe ==
  /\ Screen = "map"
  /\ camera' = IF location # NoLocation
               THEN [latitude |-> location.latitude,
                     longitude |-> location.longitude,
                     zoom |-> 17, pitch |-> 40]
               ELSE camera
  /\ UNCHANGED <<location, locLoader, error, heading, clickedPoint, mapType,
                 locationSubscription, headingSubscription, pc, mounted,
                 posWatchActive, headWatchActive, alertShown,
                 denied, lateCallback, lastTap, tapsSeen, proj4Call>>
  /\ UNCHANGED <<coneVars, poleVars>>

-----------------------------------------------------------------------------
(* The effect, lines 315-364: startTracking, one action per await outcome *)

\* lines 357, 320, 323, 284: the effect calls startTracking, which clears the
\* error and suspends on Location.requestForegroundPermissionsAsync().
StartTracking ==
  /\ pc = "init"
  /\ error' = SetState(error, NoError)
  /\ pc' = "awaitPermission"
  /\ UNCHANGED <<location, locLoader, heading, clickedPoint, mapType,
                 locationSubscription, headingSubscription, mounted,
                 posWatchActive, headWatchActive, alertShown, camera,
                 denied, lateCallback, lastTap, tapsSeen, proj4Call>>
  /\ UNCHANGED <<coneVars, poleVars>>

\* lines 284-285, 296, 323, 330: status "granted"; startTracking goes on to
\* Location.watchPositionAsync and suspends on it.
PermissionGranted ==
  /\ pc = "awaitPermission"
  /\ pc' = "awaitPosition"
  /\ UNCHANGED <<location, locLoader, error, heading, clickedPoint, mapType,
                 locationSubscription, headingSubscription, mounted,
                 posWatchActive, headWatchActive, alertShown, camera,
                 denied, lateCallback, lastTap, tapsSeen, proj4Call>>
  /\ UNCHANGED <<coneVars, poleVars>>

\* lines 285-295, 324-327: any other status; the alert, setLocLoader(false),
\* return.
PermissionDenied ==
  /\ pc = "awaitPermission"
  /\ alertShown' = TRUE
  /\ locLoader' = SetState(locLoader, FALSE)
  /\ denied' = TRUE
  /\ pc' = "done"
  /\ UNCHANGED <<location, error, heading, clickedPoint, mapType,
                 locationSubscription, headingSubscription, mounted,
                 posWatchActive, headWatchActive, camera,
                 lateCallback, lastTap, tapsSeen, proj4Call>>
  /\ UNCHANGED <<coneVars, poleVars>>

\* lines 351-354: the catch block, reached from any of the three awaits.
Catch(at, message) ==
  /\ pc = at
  /\ error' = SetState(error, message)
  /\ locLoader' = SetState(locLoader, FALSE)
  /\ pc' = "done"
  /\ UNCHANGED <<location, heading, clickedPoint, mapType,
                 locationSubscription, headingSubscription, mounted,
                 posWatchActive, headWatchActive, alertShown, camera,
                 denied, lateCallback, lastTap, tapsSeen, proj4Call>>
  /\ UNCHANGED <<coneVars, poleVars>>

PermissionThrows == Catch("awaitPermission", PermissionMsg)
WatchPositionThrows == Catch("awaitPosition", PositionMsg)
WatchHeadingThrows == Catch("awaitHeading", HeadingMsg)

\* lines 330-345, 348: watchPositionAsync resolves: the platform watch is
\* running, the closure variable gets the subscription, and startTracking
\* suspends on Location.watchHeadingAsync.
WatchPositionResolves ==
  /\ pc = "awaitPosition"
  /\ posWatchActive' = TRUE
  /\ locationSubscription' = "sub"
  /\ pc' = "awaitHeading"
  /\ UNCHANGED <<location, locLoader, error, heading, clickedPoint, mapType,
                 headingSubscription, mounted,
                 headWatchActive, alertShown, camera,
                 denied, lateCallback, lastTap, tapsSeen, proj4Call>>
  /\ UNCHANGED <<coneVars, poleVars>>

\* lines 348-350: watchHeadingAsync resolves.
WatchHeadingResolves ==
  /\ pc = "awaitHeading"
  /\ headWatchActive' = TRUE
  /\ headingSubscription' = "sub"
  /\ pc' = "done"
  /\ UNCHANGED <<location, locLoader, error, heading, clickedPoint, mapType,
                 locationSubscription, mounted,
                 posWatchActive, alertShown, camera,
                 denied, lateCallback, lastTap, tapsSeen, proj4Call>>
  /\ UNCHANGED <<coneVars, poleVars>>

\* lines 336-344: the position callback.
LocationCallback(newLocation) ==
  /\ posWatchActive
  /\ location' = SetState(location, newLocation)
  /\ locLoader' = SetState(locLoader, FALSE)
  /\ lateCallback' = (lateCallback \/ ~mounted)
  /\ UNCHANGED <<error, heading, clickedPoint, mapType,
                 locationSubscription, headingSubscription, pc, mounted,
                 posWatchActive, headWatchActive, alertShown, camera,
                 denied, lastTap, tapsSeen, proj4Call>>
  /\ UNCHANGED <<coneVars, poleVars>>

\* lines 348-350: the heading callback.
HeadingCallback(trueHeading) ==
  /\ headWatchActive
  /\ heading' = SetState(heading, trueHeading)
  /\ lateCallback' = (lateCallback \/ ~mounted)
  /\ UNCHANGED <<location, locLoader, error, clickedPoint, mapType,
                 locationSubscription, headingSubscription, pc, mounted,
                 posWatchActive, headWatchActive, alertShown, camera,
                 denied, lastTap, tapsSeen, proj4Call>>
  /\ UNCHANGED <<coneVars, poleVars>>

\* lines 360-363: the cleanup, run when the component unmounts. It removes
\* the subscriptions the closure variables hold at that moment.
Cleanup ==
  /\ mounted
  /\ pc # "init"
  /\ mounted' = FALSE
  /\ posWatchActive' = IF locationSubscription # "null" THEN FALSE
                       ELSE posWatchActive
  /\ headWatchActive' = IF headingSubscription # "null" THEN FALSE
                        ELSE headWatchActive
  /\ UNCHANGED <<location, locLoader, error, heading, clickedPoint, mapType,
                 locationSubscription, headingSubscription, pc,
                 alertShown, camera,
                 denied, lateCallback, lastTap, tapsSeen, proj4Call>>
  /\ UNCHANGED <<coneVars, poleVars>>

-----------------------------------------------------------------------------
(* Initial values *)

\* lines 240-249, 316-317: the state after the first render.
AppInit ==
  /\ location = NoLocation
  /\ locLoader = TRUE
  /\ error = NoError
  /\ heading = 0
  /\ clickedPoint = NoPoint
  /\ mapType = "standard"
  /\ locationSubscription = "null"
  /\ headingSubscription = "null"
  /\ pc = "init"
  /\ mounted = TRUE
  /\ posWatchActive = FALSE
  /\ headWatchActive = FALSE
  /\ alertShown = FALSE
  /\ camera = NoCamera
  /\ denied = FALSE
  /\ lateCallback = FALSE
  /\ lastTap = NoTap
  /\ tapsSeen = 0
  /\ proj4Call = NoProj

\* The component on the map screen: tracking runs and a fix has arrived.
AppOnMap ==
  /\ location = FixRome
  /\ locLoader = FALSE
  /\ error = NoError
  /\ heading = 0
  /\ clickedPoint = NoPoint
  /\ mapType = "standard"
  /\ locationSubscription = "sub"
  /\ headingSubscription = "sub"
  /\ pc = "done"
  /\ mounted = TRUE
  /\ posWatchActive = TRUE
  /\ headWatchActive = TRUE
  /\ alertShown = FALSE
  /\ camera = NoCamera
  /\ denied = FALSE
  /\ lateCallback = FALSE
  /\ lastTap = NoTap
  /\ tapsSeen = 0
  /\ proj4Call = NoProj

ConeIdle == coneIn = NoCone /\ cone = NoCone /\ cone360 = NoCone
PoleIdle == poleIn = NoCone /\ poleOut = NoCone

Init == AppInit /\ ConeIdle /\ PoleIdle

Next ==
  \/ StartTracking
  \/ PermissionGranted
  \/ PermissionDenied
  \/ PermissionThrows
  \/ WatchPositionResolves
  \/ WatchPositionThrows
  \/ WatchHeadingResolves
  \/ WatchHeadingThrows
  \/ \E f \in Fixes : LocationCallback(f)
  \/ \E h \in Headings : HeadingCallback(h)
  \/ \E la \in FewLats, lo \in FewLons : HandleMapPress(la, lo)
  \/ PressMapType
  \/ CenterOnMe
  \/ Cleanup

Spec == Init /\ [][Next]_vars

InitTap == AppOnMap /\ ConeIdle /\ PoleIdle

\* handleMapPress reads no state: the first tap ranges over every valid
\* longitude, the taps that replace it over FewLons.
NextTap ==
  \/ \E la \in TapLats, lo \in AllLons :
       clickedPoint = NoPoint /\ HandleMapPress(la, lo)
  \/ \E la \in TapLats, lo \in FewLons :
       clickedPoint # NoPoint /\ HandleMapPress(la, lo)

SpecTap == InitTap /\ [][NextTap]_vars

-----------------------------------------------------------------------------
(* Properties of handleMapPress *)

HasSouthFlag(def) == \E i \in DOMAIN def.options : def.options[i] = "+south"

\* C2: for every tapped longitude in [-180, 180] the stored zone (fuso) is
\* an integer in 1..60; in particular a tap at longitude 180 gives zone 60.
C2_ZoneIn1To60 ==
  clickedPoint # NoPoint =>
    /\ clickedPoint.fuso \in 1..60
    /\ (clickedPoint.lon = 180 * Scale => clickedPoint.fuso = 60)

\* C3: the stored zone is floor((longitude + 180) / 6) + 1, that is
\* 6 * (zone - 1) <= longitude + 180 < 6 * zone; longitude -177 gives 1, 3
\* gives 31 and 177 gives 60; no longitude further east has a smaller zone;
\* the longitude 6 degrees further east has the next zone; and every
\* longitude of the same 6-degree band has the same zone.
C3_ZoneFormula ==
  clickedPoint # NoPoint =>
    LET lon == clickedPoint.lon
        z == clickedPoint.fuso
        bandStart == -180 * Scale + 6 * Scale * (z - 1)
    IN /\ 6 * Scale * (z - 1) <= lon + 180 * Scale
       /\ lon + 180 * Scale < 6 * Scale * z
       /\ (lon = -177 * Scale => z = 1)
       /\ (lon = 3 * Scale => z = 31)
       /\ (lon = 177 * Scale => z = 60)
       /\ \A l2 \in AllLons :
            /\ (l2 >= lon => Fuso(l2) >= z)
            /\ (l2 = lon + 6 * Scale => Fuso(l2) = z + 1)
            /\ (bandStart <= l2 /\ l2 < bandStart + 6 * Scale => Fuso(l2) = z)

\* A tap strictly inside a band (3.5 degrees east at Scale 2) stored zone 31.
C3_Witness ==
  /\ clickedPoint # NoPoint
  /\ clickedPoint.lon = 3 * Scale + 1
  /\ clickedPoint.fuso = 31

\* C4: the stored hemisphere is "S" exactly when the tapped latitude is
\* below 0 and "N" otherwise, and the projection definition handed to proj4
\* carries the south flag exactly when the stored hemisphere is "S".
C4_Hemisphere ==
  clickedPoint # NoPoint =>
    /\ (clickedPoint.emisfero = "S" <=> lastTap.lat < 0)
    /\ (clickedPoint.emisfero = "N" <=> lastTap.lat >= 0)
    /\ (HasSouthFlag(proj4Call) <=> clickedPoint.emisfero = "S")
    /\ proj4Call.zone = clickedPoint.fuso

\* A tap on the equator stored "N" and built a definition without the flag.
C4_Witness ==
  /\ clickedPoint # NoPoint
  /\ lastTap.lat = 0
  /\ clickedPoint.emisfero = "N"
  /\ ~HasSouthFlag(proj4Call)

\* C5: clickedPoint is null exactly while no tap was handled; otherwise it
\* holds the coordinate of the most recent tap, and its zone, hemisphere,
\* easting and northing are the ones derived from that coordinate.
C5_MostRecentTap ==
  /\ (clickedPoint = NoPoint <=> lastTap = NoTap)
  /\ clickedPoint # NoPoint =>
       /\ clickedPoint.lat = lastTap.lat
       /\ clickedPoint.lon = lastTap.lon
       /\ 6 * Scale * (clickedPoint.fuso - 1) <= lastTap.lon + 180 * Scale
       /\ lastTap.lon + 180 * Scale < 6 * Scale * clickedPoint.fuso
       /\ clickedPoint.emisfero = (IF lastTap.lat < 0 THEN "S" ELSE "N")
       /\ \A v \in {clickedPoint.est.fixed2, clickedPoint.nord.fixed2} :
            /\ v.lon = lastTap.lon
            /\ v.lat = lastTap.lat
            /\ v.def.zone = clickedPoint.fuso
            /\ (HasSouthFlag(v.def) <=> lastTap.lat < 0)

\* A second tap, in another zone and the other hemisphere than some earlier
\* one, handled after a location update, a heading update and a button press.
C5_Witness ==
  /\ tapsSeen = 2
  /\ clickedPoint # NoPoint
  /\ clickedPoint.fuso = 31
  /\ clickedPoint.emisfero = "S"
  /\ heading = 350
  /\ location = FixSydney
  /\ mapType = "satellite"

-----------------------------------------------------------------------------
(* Properties of the tracking start-up and of the screens *)

\* C8: whenever the error state is non-null, the error message is on the
\* screen being rendered.
C8_ErrorShown == (mounted /\ error # NoError) => ErrorVisible

\* C9: once the effect cleanup has run, no position or heading watch is
\* active and no watch callback runs.
C9_NoWatchAfterCleanup ==
  ~mounted => (~posWatchActive /\ ~headWatchActive /\ ~lateCallback)

\* C10: the map screen is rendered, and a tapped point exists, only while
\* locLoader is false and location is non-null; and after a permission
\* denial there is no subscription and no watch, location and error are
\* null, and the screen is the loading screen for as long as the component
\* is mounted.
C10_MapGateAndDenial ==
  /\ Screen = "map" => (~locLoader /\ location # NoLocation)
  /\ clickedPoint # NoPoint => (~locLoader /\ location # NoLocation)
  /\ denied =>
       /\ alertShown
       /\ locationSubscription = "null" /\ headingSubscription = "null"
       /\ ~posWatchActive /\ ~headWatchActive
       /\ location = NoLocation
       /\ error = NoError
       /\ clickedPoint = NoPoint
       /\ Screen # "map"
       /\ (mounted => Screen = "loading")

\* Permission was denied, the loader flag is already false, and the screen
\* is still the loading screen.
C10_Witness ==
  /\ denied
  /\ mounted
  /\ ~locLoader
  /\ Screen = "loading"

-----------------------------------------------------------------------------
(* generateConeCoordinates, lines 32-73, in fixed-point degrees            *)
(*                                                                         *)
(* Angles are whole degrees and the values of the trigonometric functions  *)
(* are fixed-point with SinTable[91] for 1. SinDeg(a) stands for           *)
(* Math.sin((a * Math.PI) / 180), AsinDeg(v) for (Math.asin(v) * 180) /    *)
(* Math.PI and Atan2Deg(y, x) for (Math.atan2(y, x) * 180) / Math.PI, each *)
(* rounded to the grid; the arithmetic between them is the code's.         *)

\* 10000 * sin(a degrees) for a = 0..90, rounded.
SinTable ==
  << 0, 175, 349, 523, 698, 872, 1045, 1219, 1392, 1564, 1736, 1908, 2079,
     2250, 2419, 2588, 2756, 2924, 3090, 3256, 3420, 3584, 3746, 3907, 4067,
     4226, 4384, 4540, 4695, 4848, 5000, 5150, 5299, 5446, 5592, 5736, 5878,
     6018, 6157, 6293, 6428, 6561, 6691, 6820, 6947, 7071, 7193, 7314, 7431,
     7547, 7660, 7771, 7880, 7986, 8090, 8192, 8290, 8387, 8480, 8572, 8660,
     8746, 8829, 8910, 8988, 9063, 9135, 9205, 9272, 9336, 9397, 9455, 9511,
     9563, 9613, 9659, 9703, 9744, 9781, 9816, 9848, 9877, 9903, 9925, 9945,
     9962, 9976, 9986, 9994, 9998, 10000 >>

One == SinTable[91]

Abs(n) == IF n < 0 THEN -n ELSE n

\* n / d rounded to the nearest integer (d > 0).
RDiv(n, d) == (2 * n + d) \div (2 * d)

\* The product of two fixed-point values.
Mul(a, b) == RDiv(a * b, One)

\* Math.sin of an angle given in degrees; any integer angle, as Math.sin
\* takes any finite argument.
SinDeg(a) ==
  LET r == a % 360
  IN IF r <= 90 THEN SinTable[r + 1]
     ELSE IF r <= 180 THEN SinTable[180 - r + 1]
     ELSE IF r <= 270 THEN -SinTable[r - 180 + 1]
     ELSE -SinTable[360 - r + 1]

\* Math.cos of an angle given in degrees.
CosDeg(a) == SinDeg(a + 90)

\* Math.asin, in degrees: the whole degree in -90..90 whose sine is nearest
\* to v.
AsinDeg(v) ==
  LET lo == Cardinality({a \in -90..90 : SinDeg(a) <= v}) - 91
  IN IF lo < -90 THEN -90
     ELSE IF lo >= 90 THEN 90
     ELSE IF v - SinDeg(lo) <= SinDeg(lo + 1) - v THEN lo ELSE lo + 1

\* Math.atan2, in degrees, in -180..180: the whole degree nearest to the
\* direction of (x, y); atan2(0, 0) = 0 and atan2(0, x < 0) = 180.
Atan2Deg(y, x) ==
  IF x = 0 /\ y = 0 THEN 0
  ELSE
    LET ay == Abs(y)
        ax == Abs(x)
        F(a) == ay * CosDeg(a) - ax * SinDeg(a)
        lo == Cardinality({a \in 0..90 : F(a) >= 0}) - 1
        base == IF lo >= 90 THEN 90
                ELSE IF F(lo) <= -F(lo + 1) THEN lo ELSE lo + 1
        side == IF x >= 0 THEN base ELSE 180 - base
    IN IF y < 0 THEN -side ELSE side

\* line 38: R, the radius of the Earth in metres.
R == 6371000
\* Metres on the sphere of radius R per degree of arc, R * Math.PI / 180
\* with 355 / 113 for Math.PI: 111195.
MetersPerDegree == RDiv(RDiv(R * 10, 180) * 355, 1130)

\* line 39: d = radiusMeters / R, in degrees.
AngularRadius(radiusMeters) == RDiv(radiusMeters, MetersPerDegree)

\* line 40: brng1 = heading - 30
\* Faulty variant: line 41 copied to line 40.
Brng1Copied(h) == h + 30
Brng1(h) == h - 30

\* line 41: brng2 = heading + 30
\* Faulty variant: the bearing capped at 360.
Brng2Clamped(h) == IF h + 30 > 360 THEN 360 ELSE h + 30
Brng2(h) == h + 30

\* lines 32-73.
GenerateConeCoordinates(lat, lon, h, radiusMeters) ==
  LET d == AngularRadius(radiusMeters)
      brng1 == Brng1(h)
      brng2 == Brng2(h)
      lat2 == AsinDeg(Mul(SinDeg(lat), CosDeg(d)) +
                      Mul(Mul(CosDeg(lat), SinDeg(d)), CosDeg(brng1)))
      lon2 == lon +
              Atan2Deg(Mul(Mul(SinDeg(brng1), SinDeg(d)), CosDeg(lat)),
                       CosDeg(d) - Mul(SinDeg(lat), SinDeg(lat2)))
      lat3 == AsinDeg(Mul(SinDeg(lat), CosDeg(d)) +
                      Mul(Mul(CosDeg(lat), SinDeg(d)), CosDeg(brng2)))
      lon3 == lon +
              Atan2Deg(Mul(Mul(SinDeg(brng2), SinDeg(d)), CosDeg(lat)),
                       CosDeg(d) - Mul(SinDeg(lat), SinDeg(lat3)))
  IN << [latitude |-> lat, longitude |-> lon],
        [latitude |-> lat2, longitude |-> lon2],
        [latitude |-> lat3, longitude |-> lon3],
        [latitude |-> lat, longitude |-> lon] >>

\* Inputs: centres on and off the poles and the date line, headings whose
\* bearings leave [0, 360) on either side, radii of 0 m, 100 m (the call at
\* line 172) and of 5, 10 and 20 degrees of arc.
ConeLats == {-90, -45, 0, 30, 60, 85, 90}
ConeLons == {-180, 0, 12, 180}
ConeHeadings == {0, 15, 30, 90, 200, 345, 359}
ConeRadii == {0, 100, 555975, 1111950, 2223900}

ConeInit ==
  /\ coneIn \in [lat : ConeLats, lon : ConeLons, heading : ConeHeadings,
                 radiusMeters : ConeRadii]
  /\ cone = NoCone
  /\ cone360 = NoCone

\* lines 168-173: the cone of the current centre and heading.
ComputeCone ==
  /\ cone = NoCone
  /\ cone' = GenerateConeCoordinates(coneIn.lat, coneIn.lon, coneIn.heading,
                                     coneIn.radiusMeters)
  /\ UNCHANGED <<coneIn, cone360>>
  /\ UNCHANGED <<appVars, poleVars>>

\* The same call with the heading one full turn further.
ComputeConeTurned ==
  /\ cone360 = NoCone
  /\ cone360' = GenerateConeCoordinates(coneIn.lat, coneIn.lon,
                                        coneIn.heading + 360,
                                        coneIn.radiusMeters)
  /\ UNCHANGED <<coneIn, cone>>
  /\ UNCHANGED <<appVars, poleVars>>

InitCone == AppOnMap /\ ConeInit /\ PoleIdle

NextCone == ComputeCone \/ ComputeConeTurned

SpecCone == InitCone /\ [][NextCone]_vars

-----------------------------------------------------------------------------
(* Properties of generateConeCoordinates *)

\* The destination point of spec section 4.1: from (lat, lon), the point at
\* angular distance d on bearing brng.
Destination(lat, lon, brng, d) ==
  LET lat2 == AsinDeg(Mul(SinDeg(lat), CosDeg(d)) +
                      Mul(Mul(CosDeg(lat), SinDeg(d)), CosDeg(brng)))
  IN [ latitude |-> lat2,
       longitude |-> lon +
         Atan2Deg(Mul(Mul(SinDeg(brng), SinDeg(d)), CosDeg(lat)),
                  CosDeg(d) - Mul(SinDeg(lat), SinDeg(lat2))) ]

\* C1: the result has exactly 4 points, in the order centre, destination on
\* bearing heading - 30, destination on bearing heading + 30, centre; the
\* first and the last are exactly the input centre.
C1_ClosedRing ==
  cone # NoCone =>
    LET c == [latitude |-> coneIn.lat, longitude |-> coneIn.lon]
        d == AngularRadius(coneIn.radiusMeters)
    IN /\ Len(cone) = 4
       /\ cone[1] = c
       /\ cone[4] = c
       /\ cone[2] = Destination(coneIn.lat, coneIn.lon, coneIn.heading - 30, d)
       /\ cone[3] = Destination(coneIn.lat, coneIn.lon, coneIn.heading + 30, d)

\* A cone whose two destination points differ from each other and from the
\* centre.
C1_Witness ==
  /\ cone # NoCone
  /\ cone[2] # cone[3]
  /\ cone[2] # cone[1]
  /\ cone[3] # cone[1]
  /\ cone[1] = cone[4]

-----------------------------------------------------------------------------
(* generateConeCoordinates with radiusMeters = 0 next to a pole, lines     *)
(* 38-72, in the arithmetic of IEEE doubles                                *)
(*                                                                         *)
(* With radiusMeters = 0: d = 0 / R = 0, Math.sin(d) = 0 and Math.cos(d)   *)
(* = 1 exactly, so the argument of both Math.asin calls (lines 45-48,      *)
(* 56-59) is Math.sin(lat1) * 1 + 0 = Math.sin(lat1) exactly, and both     *)
(* Math.atan2 calls (lines 51-54, 62-65) are atan2(+-0, x >= 0) = +-0, so  *)
(* lon2 = lon3 = lon1 exactly.                                             *)
(*                                                                         *)
(* The centre is given by its pole (1 north, -1 south) and its colatitude  *)
(* n, the distance from that pole in units of 1e-9 degree. A double just   *)
(* below 1 is 1 - k * 2^-53 for a natural k. For so small a colatitude     *)
(* sin(lat1) = 1 - theta^2 / 2 and asin(1 - delta) = pi/2 - sqrt(2 delta)  *)
(* to far below one unit, which in these units reads k = n^2 /             *)
(* UnitsSqPerUlp and n = sqrt(k * UnitsSqPerUlp). A point of the result is *)
(* kept as its deviation from the centre: dLat in units of 1e-9 degree     *)
(* (positive towards the pole), dLon in units of 1e-14 degree.             *)

\* (1e-9 degree in radians)^2 / (2 * 2^-53) = 1 / 728929.
UnitsSqPerUlp == 728929

\* Largest colatitude of the fine range, and colatitudes further out.
MaxColat == 1200
FarColats == {2000, 5000, 20000, 46000}

\* Largest m in lo..hi with m * m <= x (lo * lo <= x).
RECURSIVE SqrtFloor(_, _, _)
SqrtFloor(lo, hi, x) ==
  IF lo >= hi THEN lo
  ELSE LET mid == (lo + hi + 1) \div 2
       IN IF mid * mid <= x THEN SqrtFloor(mid, hi, x)
          ELSE SqrtFloor(lo, mid - 1, x)

\* sqrt(x) rounded to the nearest integer.
SqrtRound(x) ==
  LET m == SqrtFloor(0, 46340, x)
  IN IF x - m * m > m THEN m + 1 ELSE m

\* lines 42, 46: the doubles Math.sin(lat1) can be at colatitude n, as k:
\* the neighbours of the exact value n^2 / UnitsSqPerUlp that lie within 3/4
\* of a unit in the last place of it (Math.sin is nearly correctly rounded,
\* and never above 1).
SinBelowOne(n) ==
  LET k0 == (n * n) \div UnitsSqPerUlp
      rem == (n * n) % UnitsSqPerUlp
  IN (IF 4 * rem < 3 * UnitsSqPerUlp THEN {k0} ELSE {}) \cup
     (IF 4 * rem > UnitsSqPerUlp THEN {k0 + 1} ELSE {})

\* lines 45, 69: (Math.asin(1 - k * 2^-53) * 180) / Math.PI, as a colatitude.
\* Faulty variant: the argument of Math.asin snapped to 1 when within 1e-15 of it.
AsinColatClamped(k) == IF k <= 9 THEN 0 ELSE SqrtRound(k * UnitsSqPerUlp)
AsinColat(k) == SqrtRound(k * UnitsSqPerUlp)

\* lines 43, 50, 69: ((lon * Math.PI) / 180 + 0) * 180 / Math.PI rounds four
\* times, each by at most 2^-53 relative; for |lon| <= 180 that is at most
\* 8 units of 1e-14 degree.
LonRoundTrip == -8..8

\* lines 67-72 for radiusMeters = 0: sinLat is the k of Math.sin(lat1), e2
\* and e3 the rounding of the two longitudes.
ConeRadiusZero(n, sinLat, e2, e3) ==
  << [dLat |-> 0, dLon |-> 0],
     [dLat |-> n - AsinColat(sinLat), dLon |-> e2],
     [dLat |-> n - AsinColat(sinLat), dLon |-> e3],
     [dLat |-> 0, dLon |-> 0] >>

PoleInit ==
  /\ poleIn \in [pole : {1, -1}, colat : (0..MaxColat) \cup FarColats]
  /\ poleOut = NoCone

\* generateConeCoordinates(lat, lon, heading, 0) at the centre poleIn. Both
\* longitudes are the same computation on the same input. Math.sin and
\* Math.asin are odd, so the arithmetic is the same at either pole.
ComputeAtPole ==
  /\ poleOut = NoCone
  /\ \E k \in SinBelowOne(poleIn.colat), e \in LonRoundTrip :
       poleOut' = ConeRadiusZero(poleIn.colat, k, e, e)
  /\ UNCHANGED poleIn
  /\ UNCHANGED <<appVars, coneVars>>

InitPole == AppOnMap /\ ConeIdle /\ PoleInit

NextPole == ComputeAtPole

SpecPole == InitPole /\ [][NextPole]_vars

\* C6 as claimed: for radiusMeters = 0 all four points equal the centre
\* within 1e-9 degree (1 unit of dLat, 100000 units of dLon).
C6_WithinNanoDegree ==
  poleOut # NoCone =>
    \A i \in 1..4 : Abs(poleOut[i].dLat) <= 1 /\ Abs(poleOut[i].dLon) <= 100000

\* C6 amended: for radiusMeters = 0 the first and last point are exactly the
\* centre, and the two destination points have the centre's longitude
\* within 1e-9 degree and its latitude within 1e-6 degree (1000 units).
C6_WithinMicroDegree ==
  poleOut # NoCone =>
    /\ Len(poleOut) = 4
    /\ poleOut[1] = [dLat |-> 0, dLon |-> 0]
    /\ poleOut[4] = [dLat |-> 0, dLon |-> 0]
    /\ \A i \in 2..3 :
         /\ Abs(poleOut[i].dLat) <= 1000
         /\ Abs(poleOut[i].dLon) <= 100000

\* A centre 1e-6 degree from the pole whose destination points are more
\* than 1e-7 degree away from it.
C6_Witness ==
  /\ poleOut # NoCone
  /\ poleIn.colat = 1000
  /\ Abs(poleOut[2].dLat) > 100
  /\ Abs(poleOut[3].dLat) > 100

====
